---- MODULE Spec2Model ----
(***************************************************************************)
(* Model of the patching core of SkyrimAEUncapper.                         *)
(*                                                                         *)
(*   RelocPatch.cpp  HookType, CodeSignature, kGameSignatures and the      *)
(*                   table-driven installer ApplyGamePatches().            *)
(*   RelocPatch.h    HookType, PatchSignature and the per-descriptor       *)
(*                   installer RelocPatch<T>.                              *)
(*                                                                         *)
(* ASSERT()/HALT() end the process: the model moves to pc = "aborted",     *)
(* from which nothing is enabled.                                          *)
(***************************************************************************)
EXTENDS Integers, Sequences, FiniteSets

\* ------------------------------------------------------------------ bounds

\* Length of the authored descriptor tables drawn in InitTable.
TableLen == 2

\* How many times the plugin's caller may invoke ApplyGamePatches().
MaxRuns == 2

\* Distance between the addresses the version database hands out.
DbSpacing == 4096

\* Number of values of size_t in the model (the program's is 2^64).
SizeRange == 65536

\* ------------------------------------------------------- program constants

\* RelocPatch.cpp:690 and RelocPatch.h:38
kNop == 144

\* RelocPatch.h:42-43
kDirectCallPatchSize == 5
kDirectJumpPatchSize == 5

\* The null pointer for slot pointers (return_trampoline, result).
NULL == "nullptr"

\* What Size() yields when it reaches HALT().
Halt == -1

\* ------------------------------------------------- RelocPatch.cpp: HookType

\* enum HookType::t of RelocPatch.cpp, in declaration order.
HookTypes == <<"None", "Jump5", "Jump6", "DirectJump", "Call5", "Call6", "DirectCall", "Nop">>

HookTypeSet == {HookTypes[k] : k \in 1..Len(HookTypes)}

\* HookType::Size of RelocPatch.cpp with the Jump6 case returning 5.
HookTypeSize_Mutant(type) ==
    CASE type \in {"None", "Nop"} -> 0
      [] type \in {"Jump5", "Call5", "DirectCall", "DirectJump", "Jump6"} -> 5
      [] type \in {"Call6"} -> 6
      [] OTHER -> Halt

\* HookType::Size of RelocPatch.cpp.  The eight enumerators fill the
\* switch, so its default case (HALT) is not reached by any descriptor.
HookTypeSize(type) ==
    CASE type \in {"None", "Nop"} -> 0
      [] type \in {"Jump5", "Call5", "DirectCall", "DirectJump"} -> 5
      [] type \in {"Jump6", "Call6"} -> 6
      [] OTHER -> Halt

\* --------------------------------------------------- RelocPatch.h: HookType

\* enum HookType::t of RelocPatch.h, in declaration order.
HookTypesH == <<"None", "Branch5", "Branch6", "Call5", "Call6", "DirectCall", "DirectJump", "Nop">>

HookTypeSetH == {HookTypesH[k] : k \in 1..Len(HookTypesH)}

\* HookType::Size of RelocPatch.h: None falls into the default case.
HookTypeSizeH(type) ==
    CASE type = "Nop" -> 0
      [] type \in {"Branch5", "Call5"} -> 5
      [] type \in {"Branch6", "Call6"} -> 6
      [] type = "DirectCall" -> kDirectCallPatchSize
      [] type = "DirectJump" -> kDirectJumpPatchSize
      [] OTHER -> Halt

\* ---------------------------------------------- RelocPatch.cpp: descriptors

\* The replacement functions the descriptors link to; a function's address
\* is its position in this list, hence never 0.
Functions == <<"ModifyPerkPool_Wrapper", "SkillCapPatch_Wrapper",
               "HideLegendaryButton_Wrapper", "ImprovePlayerSkillPoints_Original",
               "ImprovePlayerSkillPoints_Hook", "ImproveLevelExpBySkillLevel_Wrapper",
               "ImproveAttributeWhenLevelUp_Hook", "GetEffectiveSkillLevel_Hook",
               "DisplayTrueSkillLevel_Hook">>

\* reinterpret_cast<uintptr_t>(fn)
FnAddr(fn) == CHOOSE k \in 1..Len(Functions) : Functions[k] = fn

\* CodeSignature's patch constructor (result is always nullptr).
CodeSignature(name, hook_type, hook, id, patch_size, return_trampoline, offset) ==
    [name |-> name, hook_type |-> hook_type, hook |-> hook, id |-> id,
     patch_size |-> patch_size, offset |-> offset,
     return_trampoline |-> return_trampoline, result |-> NULL]

\* CodeSignature's object/function constructor.
CodeSignatureObject(name, id, result) ==
    [name |-> name, hook_type |-> "None", hook |-> 0, id |-> id,
     patch_size |-> 0, offset |-> 0,
     return_trampoline |-> NULL, result |-> result]

kThePlayer_ObjectSig ==
    CodeSignatureObject("g_thePlayer", 403521, "playerObject")
kGameSettingCollection_ObjectSig ==
    CodeSignatureObject("g_gameSettingCollection", 400782, "gameSettings")
kGetLevel_FunctionSig_WrongSlot ==
    CodeSignatureObject("GetLevel", 37334, "GetBaseActorValue_Entry")
kGetLevel_FunctionSig ==
    CodeSignatureObject("GetLevel", 37334, "GetLevel_Entry")
kGetBaseActorValue_FunctionSig ==
    CodeSignatureObject("GetBaseActorValue", 38464, "GetBaseActorValue_Entry")
kGetSkillCoefficients_FunctionSig ==
    CodeSignatureObject("GetSkillCoefficients", 27244, "GetSkillCoefficients_Entry")
kModifyPerkPool_PatchSig ==
    CodeSignature("ModifyPerkPool", "Jump6", FnAddr("ModifyPerkPool_Wrapper"),
                  52538, 7, NULL, 98)
kSkillCapPatch_PatchSig ==
    CodeSignature("SkillCapPatch", "Call6", FnAddr("SkillCapPatch_Wrapper"),
                  41561, 9, NULL, 118)
kHideLegendaryButton_PatchSig ==
    CodeSignature("HideLegendaryButton", "Jump6", FnAddr("HideLegendaryButton_Wrapper"),
                  52527, 30, "HideLegendaryButton_ReturnTrampoline", 339)
kImproveSkillLevel_PatchSig ==
    CodeSignature("ImproveSkillLevel", "Call5", FnAddr("ImprovePlayerSkillPoints_Original"),
                  41562, 5, NULL, 152)
kImprovePlayerSkillPoints_PatchSig ==
    CodeSignature("ImprovePlayerSkillPoints", "Jump6", FnAddr("ImprovePlayerSkillPoints_Hook"),
                  41561, 6, "ImprovePlayerSkillPoints_ReturnTrampoline", 0)
kImproveLevelExpBySkillLevel_PatchSig_Overlapping ==
    CodeSignature("ImproveLevelExpBySkillLevel", "Call6",
                  FnAddr("ImproveLevelExpBySkillLevel_Wrapper"), 41561, 8, NULL, 120)
kImproveLevelExpBySkillLevel_PatchSig ==
    CodeSignature("ImproveLevelExpBySkillLevel", "Call6",
                  FnAddr("ImproveLevelExpBySkillLevel_Wrapper"), 41561, 8, NULL, 727)
kImproveAttributeWhenLevelUp_PatchSig ==
    CodeSignature("ImproveAttributeWhenLevelUp", "Jump6",
                  FnAddr("ImproveAttributeWhenLevelUp_Hook"),
                  51917, 6, "ImproveAttributeWhenLevelUp_ReturnTrampoline", 0)
kAllowAllAttrImproveCarryWeight_PatchSig ==
    CodeSignature("AllowAllAttrImproveCarryWeight", "Nop", 0, 51917, 2, NULL, 154)
kGetEffectiveSkillLevel_PatchSig ==
    CodeSignature("GetEffectiveSkillLevel", "Jump6", FnAddr("GetEffectiveSkillLevel_Hook"),
                  38462, 6, "GetEffectiveSkillLevel_ReturnTrampoline", 0)
kDisplayTrueSkillLevel_PatchSig ==
    CodeSignature("DisplayTrueSkillLevel", "Jump6", FnAddr("DisplayTrueSkillLevel_Hook"),
                  52525, 7, "DisplayTrueSkillLevel_ReturnTrampoline", 288)

\* The table ApplyGamePatches() walks.
kGameSignatures ==
    << kThePlayer_ObjectSig,
       kGameSettingCollection_ObjectSig,
       kGetLevel_FunctionSig,
       kGetBaseActorValue_FunctionSig,
       kGetSkillCoefficients_FunctionSig,
       kModifyPerkPool_PatchSig,
       kSkillCapPatch_PatchSig,
       kHideLegendaryButton_PatchSig,
       kImproveSkillLevel_PatchSig,
       kImprovePlayerSkillPoints_PatchSig,
       kImproveLevelExpBySkillLevel_PatchSig,
       kImproveAttributeWhenLevelUp_PatchSig,
       kGetEffectiveSkillLevel_PatchSig,
       kDisplayTrueSkillLevel_PatchSig >>

\* The extern "C" return trampolines (RelocPatch.cpp:185-191).
ReturnTrampolines ==
    {"ImprovePlayerSkillPoints_ReturnTrampoline",
     "ImproveAttributeWhenLevelUp_ReturnTrampoline",
     "GetEffectiveSkillLevel_ReturnTrampoline",
     "DisplayTrueSkillLevel_ReturnTrampoline",
     "HideLegendaryButton_ReturnTrampoline"}

\* The static result pointers (RelocPatch.cpp:198-208).
ResultSlots ==
    {"playerObject", "gameSettings", "GetBaseActorValue_Entry",
     "GetLevel_Entry", "GetSkillCoefficients_Entry"}

\* Every ID an address-library database of a supported game version knows.
GameIds == {kGameSignatures[k].id : k \in 1..Len(kGameSignatures)}

\* The address the database of the running version holds for an ID.
DbAddr(id) ==
    LET rank == Cardinality({j \in GameIds : j <= id}) IN rank * DbSpacing

\* FindAddressById(): the address for an ID, 0 (null) when the ID is unknown.
FindAddressById(database, id) ==
    IF id \in DOMAIN database THEN database[id] ELSE 0

\* The databases of the game versions considered: at most one ID of the
\* table is missing from the running version's database.
Databases ==
    {[id \in GameIds \ unknown |-> DbAddr(id)] :
        unknown \in {u \in SUBSET GameIds : Cardinality(u) <= 1}}

\* The database of a version that knows every ID of the table.
FullDb == [id \in GameIds |-> DbAddr(id)]

\* ------------------------------------------------ RelocPatch.h: descriptors

\* PatchSignature's constructor.  sig, hook_offset, indirect_offset and
\* instr_size are only ever handed to RVAScan, which is modelled by its
\* result (scan), so the record keeps the fields the installer reads.
PatchSignature(name, hook_type, patch_size) ==
    [name |-> name, hook_type |-> hook_type, patch_size |-> patch_size]

\* No RelocPatch object has been constructed.
NoPatch == PatchSignature("", "None", 0)

\* ----------------------------------------------------- authored descriptors

\* Descriptors of the real table used to fill the authored tables.
Samples ==
    {kThePlayer_ObjectSig, kModifyPerkPool_PatchSig,
     kImprovePlayerSkillPoints_PatchSig, kAllowAllAttrImproveCarryWeight_PatchSig}

\* Whatever an author can write with the two CodeSignature constructors,
\* valid or not.  ID 0 is an ID no database knows.
AuthoredDescriptors ==
    {CodeSignature("Authored", t, h, id, ps, rt, off) :
        t \in HookTypeSet,
        h \in {0, FnAddr("ModifyPerkPool_Wrapper")},
        id \in {41561, 0},
        ps \in {5, 7},
        rt \in {NULL, "GetEffectiveSkillLevel_ReturnTrampoline"},
        off \in {0, 98}}
    \cup
    {CodeSignatureObject("Authored", id, r) :
        id \in {41561, 0}, r \in {NULL, "GetLevel_Entry"}}

\* Tables of TableLen descriptors, one of them authored freely.
AuthoredTables ==
    {[k \in 1..TableLen |-> IF k = p THEN d ELSE base[k]] :
        p \in 1..TableLen, d \in AuthoredDescriptors,
        base \in [1..TableLen -> Samples]}

\* Whatever an author can write with the PatchSignature constructor.
AuthoredPatches ==
    {PatchSignature("Authored", t, ps) :
        t \in HookTypeSetH, ps \in {5, 7}}

\* ------------------------------------------------------------------- state

VARIABLES
    table,          \* the descriptor table ApplyGamePatches() walks
    db,             \* the version database of the running game
    patchSig,       \* RelocPatch::sig (NoPatch: no object)
    scan,           \* what RVAScan finds for patchSig (0: nothing)
    pc,             \* position of the single thread
    runs,           \* trace of ApplyGamePatches() so far
    i,              \* ApplyGamePatches: loop index (1-based)
    real_address,   \* ApplyGamePatches: local real_address
    hook_size,      \* ApplyGamePatches: local hook_size
    obj,            \* RelocPatch members real_address and hook_done
    ret,            \* the last RelocPatch operation and what it returned
    mem,            \* executable memory: written address -> cell
    tramp,          \* the return trampolines
    result,         \* the result slots
    log,            \* the diagnostic sink
    trace,          \* collaborator trace made, in order
    fault           \* the ASSERT/HALT that ended the process

vars == <<table, db, patchSig, scan, pc, runs, i, real_address, hook_size,
          obj, ret, mem, tramp, result, log, trace, fault>>

cfgVars == <<table, db, patchSig, scan>>
runVars == <<runs, i, real_address, hook_size>>

\* State common to every configuration, right after static initialisation.
InitCommon ==
    /\ pc = "idle"
    /\ runs = 0
    /\ i = 0
    /\ real_address = 0
    /\ hook_size = 0
    /\ obj = [real_address |-> 0, hook_done |-> FALSE]
    /\ ret = [op |-> "", arg |-> 0, value |-> 0]
    /\ mem = << >>
    /\ tramp = [s \in ReturnTrampolines |-> 0]
    /\ result = [s \in ResultSlots |-> 0]
    /\ log = << >>
    /\ trace = << >>
    /\ fault = [why |-> "", at |-> 0]

\* The plugin as shipped: kGameSignatures against some version's database.
InitGame ==
    /\ table = kGameSignatures
    /\ db \in Databases
    /\ patchSig = NoPatch
    /\ scan = 0
    /\ InitCommon

\* An authored table against a database that knows the table's IDs.
InitTable ==
    /\ table \in AuthoredTables
    /\ db = FullDb
    /\ patchSig = NoPatch
    /\ scan = 0
    /\ InitCommon

\* One RelocPatch<T> object over an authored PatchSignature.
InitReloc ==
    /\ table = << >>
    /\ db = FullDb
    /\ patchSig \in AuthoredPatches
    /\ scan \in {0, DbAddr(41561)}
    /\ InitCommon

Init == InitGame \/ InitTable \/ InitReloc

\* ------------------------------------------------------------ collaborators

\* _MESSAGE(): one line in the diagnostic sink; name is the descriptor the
\* line names ("" when it names none).
Message(text, name) == [text |-> text, name |-> name]

\* ASSERT()/HALT() failing: _AssertionFailed logs the file, the line and the
\* text of the expression, then ends the process.
AssertionFailed(why) == Message(why, "")

\* A collaborator call or slot store made for table index k (0: for the
\* RelocPatch object).
Call(fn, k) == [fn |-> fn, run |-> runs, i |-> k]

\* One byte of executable memory after a write.
Cell(enc, val, target) == [enc |-> enc, val |-> val, target |-> target]

\* The byte SafeMemSet(addr, kNop, n) leaves.
NopCell == Cell("byte", kNop, 0)

\* The byte at an address: "orig" cells are the game's own code.
Byte(m, a) == IF a \in DOMAIN m THEN m[a] ELSE Cell("orig", 0, 0)

\* The branch/call write primitive of each injectable type
\* (g_branchTrampoline.Write5Branch ..., SafeWriteCall, SafeWriteJump).
Primitive(type) ==
    CASE type \in {"Jump5", "Branch5"} -> "Write5Branch"
      [] type \in {"Jump6", "Branch6"} -> "Write6Branch"
      [] type = "Call5" -> "Write5Call"
      [] type = "Call6" -> "Write6Call"
      [] type = "DirectCall" -> "SafeWriteCall"
      [] type = "DirectJump" -> "SafeWriteJump"
      [] OTHER -> ""

\* Bytes a primitive writes: 5 for the rel32 forms, 6 for the indirect ones.
PrimitiveSize(prim) ==
    IF prim \in {"Write6Branch", "Write6Call"} THEN 6 ELSE 5

\* Memory after a successful primitive(addr, target).
WriteHook_Before(m, prim, addr, target) ==
    LET W == (addr - 1) .. (addr + PrimitiveSize(prim) - 1) IN
    [a \in DOMAIN m \cup W |->
        IF a \in W THEN Cell(prim, a - addr, target) ELSE m[a]]

\* Memory after a write primitive put its encoding at addr: every byte of
\* the encoding records the primitive, its position and the target.
WriteHook(m, prim, addr, target) ==
    LET W == addr .. (addr + PrimitiveSize(prim) - 1) IN
    [a \in DOMAIN m \cup W |->
        IF a \in W THEN Cell(prim, a - addr, target) ELSE m[a]]

\* SafeMemSet that stops one byte short.
SafeMemSet_Short(m, addr, val, count) ==
    LET W == addr .. (addr + count - 2) IN
    [a \in DOMAIN m \cup W |-> IF a \in W THEN Cell("byte", val, 0) ELSE m[a]]

\* Memory after SafeMemSet(addr, val, count), count >= 0.
SafeMemSet(m, addr, val, count) ==
    LET W == addr .. (addr + count - 1) IN
    [a \in DOMAIN m \cup W |-> IF a \in W THEN Cell("byte", val, 0) ELSE m[a]]

\* size_t subtraction: patch_size - hook_size wraps below zero.
SizeSub(patch_size, hs) ==
    IF patch_size >= hs THEN patch_size - hs ELSE patch_size - hs + SizeRange

\* ------------------------------------------------------- ApplyGamePatches()

\* sig = kGameSignatures[i]
Sig == table[i]

\* real_address + hook_size (RelocPatch.cpp:794)
return_address == real_address + hook_size

\* The size assertion left out.
SizeFits_Mutant(hs, patch_size) == TRUE

\* real_address computed without the descriptor's offset.
RealAddress_NoOffset(addr, offset) == addr

\* reinterpret_cast<uintptr_t>(addr) + sig->offset (RelocPatch.cpp:783)
RealAddress(addr, offset) == addr + offset

\* ASSERT(hook_size <= sig->patch_size)
SizeFits(hs, patch_size) == hs <= patch_size

\* The target assertion left out.
TargetMatches_Mutant(hook, type) == TRUE

\* ASSERT(!(sig->hook) == (hook_type == None || hook_type == Nop))
TargetMatches(hook, type) == (hook = 0) = (type \in {"None", "Nop"})

\* The result store left out.
StoreResult_Skip(slots, slot, addr) == slots

\* *(sig->result) = reinterpret_cast<void*>(real_address)
StoreResult(slots, slot, addr) == [slots EXCEPT ![slot] = addr]

\* The process ends in ASSERT()/HALT().
Abort(why) ==
    /\ pc' = "aborted"
    /\ fault' = [why |-> why, at |-> i]
    /\ log' = Append(log, AssertionFailed(why))

\* The public operation called last, its argument and the value it returned.
Returned(op, arg, value) == [op |-> op, arg |-> arg, value |-> value]

\* ApplyGamePatches() entered without db.Load().
Enter_Unloaded ==
    /\ pc \in {"idle", "done"}
    /\ runs < MaxRuns
    /\ Len(table) > 0
    /\ runs' = runs + 1
    /\ log' = Append(log, Message("Applying game patches...", ""))
    /\ i' = 1
    /\ real_address' = 0
    /\ hook_size' = 0
    /\ pc' = "lookup"
    /\ ret' = Returned("ApplyGamePatches", 0, 0)
    /\ UNCHANGED <<cfgVars, obj, mem, tramp, result, trace, fault>>

\* ApplyGamePatches() is entered: the opening message, VersionDb(), Load().
Enter ==
    /\ pc \in {"idle", "done"}
    /\ runs < MaxRuns
    /\ Len(table) > 0
    /\ runs' = runs + 1
    /\ log' = Append(log, Message("Applying game patches...", ""))
    /\ trace' = Append(trace, [fn |-> "Load", run |-> runs + 1, i |-> 0])
    /\ i' = 1
    /\ real_address' = 0
    /\ hook_size' = 0
    /\ pc' = "lookup"
    /\ ret' = Returned("ApplyGamePatches", 0, 0)
    /\ UNCHANGED <<cfgVars, obj, mem, tramp, result, fault>>

\* Lookup that skips a descriptor whose ID is unknown and goes on.
Lookup_Continue ==
    /\ pc = "lookup"
    /\ trace' = Append(trace, Call("FindAddressById", i))
    /\ LET addr == FindAddressById(db, Sig.id) IN
        IF addr = 0
        THEN /\ i' = i + 1
             /\ pc' = IF i = Len(table) THEN "done" ELSE "lookup"
             /\ UNCHANGED real_address
        ELSE /\ real_address' = RealAddress(addr, Sig.offset)
             /\ pc' = "report"
             /\ UNCHANGED i
    /\ UNCHANGED <<cfgVars, runs, hook_size, obj, ret, mem, tramp, result, log, fault>>

\* db.FindAddressById(id); ASSERT(addr); real_address = addr + sig->offset.
\* (The known_offset consistency check before it exists in _DEBUG builds only.)
Lookup ==
    /\ pc = "lookup"
    /\ trace' = Append(trace, Call("FindAddressById", i))
    /\ LET addr == FindAddressById(db, Sig.id) IN
        IF addr = 0
        THEN /\ Abort("addr")
             /\ UNCHANGED real_address
        ELSE /\ real_address' = RealAddress(addr, Sig.offset)
             /\ pc' = "report"
             /\ UNCHANGED <<log, fault>>
    /\ UNCHANGED <<cfgVars, runs, i, hook_size, obj, ret, mem, tramp, result>>

\* Report without the message.
Report_Silent ==
    /\ pc = "report"
    /\ pc' = "check"
    /\ UNCHANGED <<cfgVars, runVars, obj, ret, mem, tramp, result, log, trace, fault>>

\* _MESSAGE("Signature %s ([ID: %zu] + 0x%zx) is at offset 0x%zx", ...)
Report ==
    /\ pc = "report"
    /\ log' = Append(log, Message("Signature is at offset", Sig.name))
    /\ pc' = "check"
    /\ UNCHANGED <<cfgVars, runVars, obj, ret, mem, tramp, result, trace, fault>>

\* hook_size = HookType::Size(sig->hook_type) and the two ASSERTs on it.
Check ==
    /\ pc = "check"
    /\ LET hs == HookTypeSize(Sig.hook_type) IN
        IF hs = Halt
        THEN /\ Abort("Cannot get the size of an invalid hook type.")
             /\ UNCHANGED hook_size
        ELSE /\ hook_size' = hs
             /\ IF ~SizeFits(hs, Sig.patch_size)
                THEN Abort("hook_size <= sig->patch_size")
                ELSE IF ~TargetMatches(Sig.hook, Sig.hook_type)
                THEN Abort("!(sig->hook) == (None || Nop)")
                ELSE /\ pc' = "trampoline"
                     /\ UNCHANGED <<log, fault>>
    /\ UNCHANGED <<cfgVars, runs, i, real_address, obj, ret, mem, tramp, result, trace>>

\* The return slot accepted for every hook type.
SlotAllowed_Any(type) == TRUE

\* ASSERT(sig->hook_type != HookType::None);
\* ASSERT(sig->hook_type != HookType::Nop);
SlotAllowed(type) == type \notin {"None", "Nop"}

\* Trampoline with the slot write left out before the hook is installed.
Trampoline_Late ==
    /\ pc = "trampoline"
    /\ pc' = "hook"
    /\ UNCHANGED <<cfgVars, runVars, obj, ret, mem, tramp, result, log, trace, fault>>

\* if (sig->return_trampoline) { ASSERT; ASSERT; *slot = return_address; }
Trampoline ==
    /\ pc = "trampoline"
    /\ IF Sig.return_trampoline = NULL
       THEN /\ pc' = "hook"
            /\ UNCHANGED <<tramp, trace, log, fault>>
       ELSE IF ~SlotAllowed(Sig.hook_type)
       THEN /\ Abort(IF Sig.hook_type = "None"
                     THEN "sig->hook_type != HookType::None"
                     ELSE "sig->hook_type != HookType::Nop")
            /\ UNCHANGED <<tramp, trace>>
       ELSE /\ tramp' = [tramp EXCEPT ![Sig.return_trampoline] = return_address]
            /\ trace' = Append(trace, Call("*return_trampoline", i))
            /\ pc' = "hook"
            /\ UNCHANGED <<log, fault>>
    /\ UNCHANGED <<cfgVars, runVars, obj, ret, mem, result>>

\* The primitive's result is dropped: the loop goes on to the filler.
PrimitiveFailed_Ignored(type) ==
    /\ pc' = "fill"
    /\ UNCHANGED <<mem, log, fault>>

\* ASSERT(<primitive>(real_address, sig->hook)) with the primitive returning
\* false: the assertion ends the process; the primitive wrote nothing.
PrimitiveFailed(type) ==
    /\ Abort(Primitive(type))
    /\ UNCHANGED mem

\* switch (sig->hook_type): the result slot, a write primitive, or nothing.
\* A primitive that reports failure has written nothing.
Hook ==
    /\ pc = "hook"
    /\ LET type == Sig.hook_type IN
        IF type = "None"
        THEN IF Sig.result = NULL
             THEN /\ Abort("sig->result")
                  /\ UNCHANGED <<result, mem, trace>>
             ELSE /\ result' = StoreResult(result, Sig.result, real_address)
                  /\ trace' = Append(trace, Call("*result", i))
                  /\ pc' = "fill"
                  /\ UNCHANGED <<mem, log, fault>>
        ELSE IF type = "Nop"
        THEN /\ pc' = "fill"
             /\ UNCHANGED <<result, mem, trace, log, fault>>
        ELSE IF type \notin HookTypeSet
        THEN /\ Abort("Cannot install a hook with an invalid type")
             /\ UNCHANGED <<result, mem, trace>>
        ELSE /\ trace' = Append(trace, Call(Primitive(type), i))
             /\ UNCHANGED result
             /\ \E ok \in BOOLEAN :
                  IF ok
                  THEN /\ mem' = WriteHook(mem, Primitive(type), real_address, Sig.hook)
                       /\ pc' = "fill"
                       /\ UNCHANGED <<log, fault>>
                  ELSE PrimitiveFailed(type)
    /\ UNCHANGED <<cfgVars, runVars, obj, ret, tramp>>

\* SafeMemSet(return_address, kNop, sig->patch_size - hook_size), then i++;
\* after the last descriptor the closing message.  A wrapped count runs
\* off the code section.
Fill ==
    /\ pc = "fill"
    /\ trace' = Append(trace, Call("SafeMemSet", i))
    /\ LET count == SizeSub(Sig.patch_size, hook_size) IN
        IF count > Sig.patch_size
        THEN /\ Abort("SafeMemSet: access violation")
             /\ UNCHANGED <<mem, i>>
        ELSE /\ mem' = SafeMemSet(mem, return_address, kNop, count)
             /\ i' = i + 1
             /\ IF i = Len(table)
                THEN /\ pc' = "done"
                     /\ log' = Append(log, Message("Finished applying game patches!", ""))
                ELSE /\ pc' = "lookup"
                     /\ UNCHANGED log
             /\ UNCHANGED fault
    /\ UNCHANGED <<cfgVars, runs, real_address, hook_size, obj, ret, tramp, result>>

ApplyGamePatches == Enter \/ Lookup \/ Report \/ Check \/ Trampoline \/ Hook \/ Fill

\* ------------------------------------------------------------ RelocPatch<T>

\* A member function of the object may be called: the thread is not inside
\* ApplyGamePatches() and the process has not ended.
Callable ==
    /\ pc \in {"idle", "done"}
    /\ patchSig # NoPatch

\* Resolve() without the early return: it scans on every call.
IsResolved_Mutant == FALSE

\* Resolve() finds nothing to do.
IsResolved == obj.real_address # 0

\* real_address after Resolve(): the cached one, else RVAScan's.
ResolvedAddress == IF IsResolved THEN obj.real_address ELSE scan

\* The collaborator trace after Resolve(): RVAScan runs only when the
\* address is not cached yet.
ResolveCalls == IF IsResolved THEN trace ELSE Append(trace, Call("RVAScan", 0))

\* ASSERT(real_address) at the end of Resolve() fails.
ResolveFails == ResolvedAddress = 0

\* The frame of a RelocPatch operation that returns value without writing.
Getter(op, value) ==
    /\ trace' = ResolveCalls
    /\ IF ResolveFails
       THEN /\ Abort("real_address")
            /\ ret' = Returned(op, 0, 0)
            /\ UNCHANGED obj
       ELSE /\ obj' = [obj EXCEPT !.real_address = ResolvedAddress]
            /\ ret' = Returned(op, 0, value)
            /\ UNCHANGED <<pc, log, fault>>
    /\ UNCHANGED <<cfgVars, runVars, mem, tramp, result>>

\* void Resolve()
Resolve == Callable /\ Getter("Resolve", 0)

\* T &operator *()
Deref == Callable /\ Getter("operator*", ResolvedAddress)

\* T *operator->()
Arrow == Callable /\ Getter("operator->", ResolvedAddress)

\* uintptr_t GetUIntPtr()
GetUIntPtr == Callable /\ Getter("GetUIntPtr", ResolvedAddress)

\* operator T(): returns real_address as it is, without Resolve().
Cast ==
    /\ Callable
    /\ ret' = Returned("operator T", 0, obj.real_address)
    /\ UNCHANGED <<cfgVars, runVars, pc, obj, mem, tramp, result, log, trace, fault>>

\* uintptr_t GetRetAddr(): Resolve(), then real_address + Size(hook_type).
GetRetAddr ==
    /\ Callable
    /\ trace' = ResolveCalls
    /\ LET hs == HookTypeSizeH(patchSig.hook_type) IN
        IF ResolveFails
        THEN /\ Abort("real_address")
             /\ ret' = Returned("GetRetAddr", 0, 0)
             /\ UNCHANGED obj
        ELSE /\ obj' = [obj EXCEPT !.real_address = ResolvedAddress]
             /\ IF hs = Halt
                THEN /\ Abort("Cannot get the size of an invalid hook type.")
                     /\ ret' = Returned("GetRetAddr", 0, 0)
                ELSE /\ ret' = Returned("GetRetAddr", 0, ResolvedAddress + hs)
                     /\ UNCHANGED <<pc, log, fault>>
    /\ UNCHANGED <<cfgVars, runVars, mem, tramp, result>>

\* The hook_done assertion left out.
NotApplied_Mutant(hook_done) == TRUE

\* ASSERT(!hook_done)
NotApplied(hook_done) == ~hook_done

\* Apply() from the switch on: the write primitive (ok: it reports success),
\* then SafeMemSet(GetRetAddr(), kNop, patch_size - hook_size), then
\* hook_done = true.  A wrapped count runs off the code section.
Install(target, ok) ==
    LET type  == patchSig.hook_type
        hs    == HookTypeSizeH(type)
        addr  == ResolvedAddress
        count == SizeSub(patchSig.patch_size, hs)
        hooked == IF type = "Nop" THEN mem
                  ELSE WriteHook(mem, Primitive(type), addr, target)
        called == IF type = "Nop" THEN ResolveCalls
                  ELSE Append(ResolveCalls, Call(Primitive(type), 0))
    IN
    IF ~ok
    THEN /\ Abort(Primitive(type))
         /\ trace' = called
         /\ obj' = [obj EXCEPT !.real_address = addr]
         /\ UNCHANGED mem
    ELSE IF count > patchSig.patch_size
    THEN /\ Abort("SafeMemSet: access violation")
         /\ trace' = Append(called, Call("SafeMemSet", 0))
         /\ obj' = [obj EXCEPT !.real_address = addr]
         /\ mem' = hooked
    ELSE /\ trace' = Append(called, Call("SafeMemSet", 0))
         /\ mem' = SafeMemSet(hooked, addr + hs, kNop, count)
         /\ obj' = [real_address |-> addr, hook_done |-> TRUE]
         /\ UNCHANGED <<pc, log, fault>>

\* void Apply(uintptr_t target = 0)
Apply(target) ==
    /\ Callable
    /\ ret' = Returned("Apply", target, 0)
    /\ LET type == patchSig.hook_type
           hs   == HookTypeSizeH(type)
           addr == ResolvedAddress
       IN
        IF ResolveFails
        THEN /\ Abort("real_address")
             /\ trace' = ResolveCalls
             /\ UNCHANGED <<obj, mem>>
        ELSE IF hs = Halt
        THEN /\ Abort("Cannot get the size of an invalid hook type.")
             /\ trace' = ResolveCalls
             /\ obj' = [obj EXCEPT !.real_address = addr]
             /\ UNCHANGED mem
        ELSE IF ~NotApplied(obj.hook_done)
        THEN /\ Abort("!hook_done")
             /\ trace' = ResolveCalls
             /\ obj' = [obj EXCEPT !.real_address = addr]
             /\ UNCHANGED mem
        ELSE IF ~SizeFits(hs, patchSig.patch_size)
        THEN /\ Abort("hook_size <= sig->patch_size")
             /\ trace' = ResolveCalls
             /\ obj' = [obj EXCEPT !.real_address = addr]
             /\ UNCHANGED mem
        ELSE IF type \notin HookTypeSetH \ {"None"}
        THEN /\ Abort("Cannot install a hook with an invalid type")
             /\ trace' = ResolveCalls
             /\ obj' = [obj EXCEPT !.real_address = addr]
             /\ UNCHANGED mem
        ELSE IF type = "Nop"
        THEN Install(target, TRUE)
        ELSE \E ok \in BOOLEAN : Install(target, ok)
    /\ UNCHANGED <<cfgVars, runVars, tramp, result>>

\* The targets a caller passes to Apply(): none (the default 0) or a hook.
Targets == {0, FnAddr("ModifyPerkPool_Wrapper")}

RelocPatch ==
    \/ Resolve
    \/ Deref
    \/ Arrow
    \/ GetUIntPtr
    \/ Cast
    \/ GetRetAddr
    \/ \E target \in Targets : Apply(target)

\* -------------------------------------------------------------- the getters

\* A getter of RelocPatch.cpp may be called: the plugin is loaded, the
\* thread is not inside ApplyGamePatches() and the process has not ended.
GetterCallable ==
    /\ pc \in {"idle", "done"}
    /\ patchSig = NoPatch

\* ASSERT(<slot>) at the head of each getter passes.
SlotPresent(slot) == result[slot] # 0

\* An assertion of a getter fails: the process ends; no descriptor is
\* being handled.
GetterFails(op, why) ==
    /\ pc' = "aborted"
    /\ fault' = [why |-> why, at |-> 0]
    /\ log' = Append(log, AssertionFailed(why))
    /\ ret' = Returned(op, 0, 0)

\* GetPlayer() and GetGameSettings(): ASSERT(slot); ASSERT(*slot);
\* return *slot.  What the game keeps at the slot's address is the game's
\* business: null (0) until it has created the object, else the object (1).
PointerGetter(op, slot, pointee) ==
    /\ GetterCallable
    /\ IF ~SlotPresent(slot)
       THEN GetterFails(op, slot)
       ELSE \E object \in {0, 1} :
               IF object = 0
               THEN GetterFails(op, pointee)
               ELSE /\ ret' = Returned(op, 0, object)
                    /\ UNCHANGED <<pc, log, fault>>
    /\ UNCHANGED <<cfgVars, runVars, obj, mem, tramp, result, trace>>

\* GetBaseActorValue(), GetLevel() and GetSkillCoefficients(): ASSERT(entry);
\* return entry(...).  The value recorded is the address called.
FunctionGetter(op, slot) ==
    /\ GetterCallable
    /\ IF ~SlotPresent(slot)
       THEN GetterFails(op, slot)
       ELSE /\ ret' = Returned(op, 0, result[slot])
            /\ UNCHANGED <<pc, log, fault>>
    /\ UNCHANGED <<cfgVars, runVars, obj, mem, tramp, result, trace>>

\* PlayerCharacter *GetPlayer()
GetPlayer == PointerGetter("GetPlayer", "playerObject", "*playerObject")

\* SettingCollectionMap *GetGameSettings()
GetGameSettings == PointerGetter("GetGameSettings", "gameSettings", "*gameSettings")

\* float GetBaseActorValue(void *actor, UInt32 skill_id)
GetBaseActorValue == FunctionGetter("GetBaseActorValue", "GetBaseActorValue_Entry")

\* UInt16 GetLevel(void *actor)
GetLevel == FunctionGetter("GetLevel", "GetLevel_Entry")

\* bool GetSkillCoefficients(UInt32 skill_id, float &a, float &b, float &c, float &d)
GetSkillCoefficients == FunctionGetter("GetSkillCoefficients", "GetSkillCoefficients_Entry")

Getters ==
    \/ GetPlayer
    \/ GetGameSettings
    \/ GetBaseActorValue
    \/ GetLevel
    \/ GetSkillCoefficients

Next == ApplyGamePatches \/ RelocPatch \/ Getters

Spec == Init /\ [][Next]_vars

\* ------------------------------------------------------------------ claims

\* The footprint table as the specification states it, by tag of either catalog.
Footprint(tag) ==
    CASE tag \in {"None", "Nop"} -> 0
      [] tag \in {"Jump5", "Branch5", "DirectJump", "Call5", "DirectCall"} -> 5
      [] tag \in {"Jump6", "Branch6", "Call6"} -> 6

\* The injectable encodings of the table-driven installer.
Injectable == HookTypeSet \ {"None", "Nop"}

\* The branch/call write primitives.
Primitives ==
    {"Write5Branch", "Write6Branch", "Write5Call", "Write6Call",
     "SafeWriteCall", "SafeWriteJump"}

\* The address a table descriptor resolves to: database address plus offset.
ResolvedOf(d) == FindAddressById(db, d.id) + d.offset

\* The primitive trace made so far for descriptors of the table.
HookCalls == {k \in 1..Len(trace) : trace[k].fn \in Primitives /\ trace[k].i >= 1}

\* C1: for a descriptor with an injectable type and a return slot, the slot
\* holds resolvedAddress + footprint(hookType) when the write primitive is
\* about to be invoked for it and ever after, and the store to the slot is
\* what the installer did just before invoking the primitive: no hook of
\* such a descriptor is in memory while its slot is still zero.
C1_SlotBeforeHook ==
    /\ (pc = "hook" /\ Sig.hook_type \in Injectable /\ Sig.return_trampoline # NULL)
          => /\ tramp[Sig.return_trampoline] = ResolvedOf(Sig) + Footprint(Sig.hook_type)
             /\ tramp[Sig.return_trampoline] # 0
    /\ \A k \in HookCalls :
          LET d == table[trace[k].i] IN
          d.return_trampoline # NULL
             => /\ tramp[d.return_trampoline] = ResolvedOf(d) + Footprint(d.hook_type)
                /\ tramp[d.return_trampoline] # 0
                /\ k > 1
                /\ trace[k - 1] =
                      [fn |-> "*return_trampoline", run |-> trace[k].run, i |-> trace[k].i]

\* C1 witness: a hook of a descriptor with a return slot has been written.
C1_Witness ==
    \E k \in HookCalls :
        /\ table[trace[k].i].return_trampoline # NULL
        /\ pc = "fill"
        /\ Byte(mem, real_address).enc \in Primitives

\* Resolution of table descriptor k cannot succeed: its ID is unknown.
Unresolvable(k) == FindAddressById(db, table[k].id) = 0

\* C2: when resolution or installation of the descriptor at index k fails,
\* the process aborts on the spot: the failing lookup is the last thing
\* done, nothing is recorded for an index above k in that run, the loop
\* index stays at k, the aborting step leaves memory and every slot as the
\* earlier descriptors wrote them, and nothing runs after the abort.
C2_AbortAtFirstFailure ==
    /\ [](/\ \A e \in 1..Len(trace) :
                (/\ trace[e].fn = "FindAddressById"
                 /\ trace[e].run = runs
                 /\ Unresolvable(trace[e].i))
                    => /\ pc = "aborted"
                       /\ fault.at = trace[e].i
                       /\ e = Len(trace)
          /\ (pc = "aborted" /\ fault.at >= 1)
                => /\ i = fault.at
                   /\ \A e \in 1..Len(trace) :
                        trace[e].run = runs => trace[e].i <= fault.at)
    /\ [][/\ pc # "aborted"
          /\ pc' = "aborted" => (mem' = mem /\ tramp' = tramp /\ result' = result)]_vars

\* C2 witness: the run aborted at a descriptor that is neither the first nor
\* the last of the table, with an earlier descriptor's hook in memory.
C2_Witness ==
    /\ pc = "aborted"
    /\ fault.at > 1
    /\ fault.at < Len(table)
    /\ \E a \in DOMAIN mem : mem[a].enc \in Primitives

\* The trace entries that store to a slot or write executable memory.
WriteEvents == Primitives \cup {"SafeMemSet", "*return_trampoline", "*result"}

\* C3 as stated, for both installers: once the installation of a descriptor
\* has completed (its SafeMemSet is in the trace), nothing is stored or
\* written for that descriptor again.
C3_Original ==
    \A e1, e2 \in 1..Len(trace) :
        (/\ e1 < e2
         /\ trace[e1].fn = "SafeMemSet"
         /\ trace[e2].i = trace[e1].i)
            => trace[e2].fn \notin WriteEvents

\* C3 amended: single-shot installation is a property of RelocPatch::Apply:
\* an Apply() on an object whose hook is done ends in ASSERT(!hook_done)
\* with memory and every slot untouched, so one object never writes twice.
\* (ApplyGamePatches keeps no installed flag; a second run repeats the
\* stores and writes of the first.)
C3_ApplySingleShot ==
    /\ [](\A e1, e2 \in 1..Len(trace) :
            (/\ e1 < e2
             /\ trace[e1].fn = "SafeMemSet"
             /\ trace[e1].i = 0
             /\ trace[e2].i = 0)
                => trace[e2].fn \notin WriteEvents)
    /\ [][((\E target \in Targets : Apply(target)) /\ obj.hook_done)
            => /\ pc' = "aborted"
               /\ fault'.why = "!hook_done"
               /\ mem' = mem
               /\ tramp' = tramp
               /\ result' = result
               /\ trace' = trace]_vars

\* C3 witness: a second Apply() on an installed object has faulted.
C3_Witness ==
    /\ pc = "aborted"
    /\ fault.why = "!hook_done"
    /\ obj.hook_done
    /\ ret.op = "Apply"
    /\ \E a \in DOMAIN mem : mem[a] = NopCell

\* The lookup collaborators: the version database and the pattern scanner.
Lookups == {"FindAddressById", "RVAScan"}

\* The trace entries that consult a lookup collaborator for descriptor k
\* (0: the RelocPatch object).
LookupsOf(k) == {e \in 1..Len(trace) : trace[e].fn \in Lookups /\ trace[e].i = k}

\* The RelocPatch operations that resolve and hand out the address.
Resolving == {"operator*", "operator->", "GetUIntPtr"}

\* C4 as stated, for both strategies: the lookup collaborator is consulted
\* at most once for a descriptor.
C4_Original ==
    \A k \in 0..Len(table) : Cardinality(LookupsOf(k)) <= 1

\* C4 amended: RelocPatch memoizes: RVAScan is consulted at most once for
\* the object and every resolving operation returns the address it found,
\* which is the cached real_address.  ApplyGamePatches caches nothing: each
\* run consults the database exactly once per descriptor it reaches, and
\* every run computes the same address, database address plus offset.
C4_Memoized ==
    /\ Cardinality(LookupsOf(0)) <= 1
    /\ obj.real_address \in {0, scan}
    /\ (ret.op \in Resolving /\ pc # "aborted")
          => /\ ret.value = scan
             /\ ret.value = obj.real_address
             /\ ret.value # 0
    /\ \A k \in 1..Len(table) :
          \A r \in 1..runs :
             Cardinality({e \in LookupsOf(k) : trace[e].run = r}) <= 1
    /\ (pc \in {"report", "check", "trampoline", "hook", "fill"})
          => /\ real_address = ResolvedOf(Sig)
             /\ Cardinality({e \in LookupsOf(i) : trace[e].run = runs}) = 1

\* C4 witness: the object was resolved by one operation and a later
\* resolving operation returned the cached address.
C4_Witness ==
    /\ ret.op = "GetUIntPtr"
    /\ ret.value = scan
    /\ obj.hook_done
    /\ Cardinality(LookupsOf(0)) = 1

\* The message of the HALT() in either HookType::Size.
SizeHalt == "Cannot get the size of an invalid hook type."

\* The closed tag set of the specification, in the names of either catalog.
ClosedTags == HookTypeSet \cup HookTypeSetH

\* C5 as stated, for both catalogs: whenever Size has been computed for a
\* tag of the closed set the result is the footprint of the table (None 0,
\* Nop 0, short 5, long 6, direct 5), and Size halts only for a tag outside
\* the closed set.
C5_Original ==
    /\ (pc \in {"trampoline", "hook", "fill"})
          => hook_size = Footprint(Sig.hook_type)
    /\ (pc = "aborted" /\ fault.why = SizeHalt /\ fault.at >= 1)
          => table[fault.at].hook_type \notin ClosedTags
    /\ (pc # "aborted" /\ ret.op = "GetRetAddr")
          => ret.value = obj.real_address + Footprint(patchSig.hook_type)
    /\ (pc = "aborted" /\ fault.why = SizeHalt /\ fault.at = 0)
          => patchSig.hook_type \notin ClosedTags

\* C5 amended: the catalog of RelocPatch.cpp is total on the closed set with
\* the footprints of the table and halts only for a tag outside it; the
\* catalog of RelocPatch.h returns the same footprints for Nop and the six
\* injectable tags but halts for None as well.  The result is decided by
\* the tag alone, whatever the descriptor's other fields are.
C5_Footprint ==
    /\ (pc \in {"trampoline", "hook", "fill"})
          => hook_size = Footprint(Sig.hook_type)
    /\ (pc = "aborted" /\ fault.why = SizeHalt /\ fault.at >= 1)
          => table[fault.at].hook_type \notin HookTypeSet
    /\ (pc # "aborted" /\ ret.op = "GetRetAddr")
          => /\ patchSig.hook_type \in HookTypeSetH \ {"None"}
             /\ ret.value = obj.real_address + Footprint(patchSig.hook_type)
    /\ (pc = "aborted" /\ fault.why = SizeHalt /\ fault.at = 0)
          => patchSig.hook_type \notin HookTypeSetH \ {"None"}
    /\ (pc = "aborted" /\ fault.at = 0 /\ ret.op = "GetRetAddr" /\ scan # 0)
          => /\ fault.why = SizeHalt
             /\ patchSig.hook_type = "None"

\* C5 witness: Size returned 6 for a long jump in the table-driven
\* installer, whose descriptor reserves 7 bytes.
C5_Witness ==
    /\ pc = "fill"
    /\ Sig.hook_type = "Jump6"
    /\ Sig.patch_size = 7
    /\ hook_size = 6

\* The table descriptor whose installation has just completed: Fill has
\* moved the loop on and nothing else has run since.
JustInstalled == pc \in {"lookup", "done"} /\ i > 1

\* The primitive calls of the current run for table index k.
HookCallsOf(k) ==
    {e \in 1..Len(trace) :
        trace[e].fn \in Primitives /\ trace[e].i = k /\ trace[e].run = runs}

\* Every byte of [from, from + count) is the no-op value 0x90.
AllNops(from, count) ==
    \A a \in from .. (from + count - 1) : Byte(mem, a) = Cell("byte", 144, 0)

\* C6: after a successful installation the patchSize - footprint bytes that
\* follow the hook are all 0x90; for a Nop descriptor the whole window is
\* 0x90 and no write primitive was invoked for it.  Both installers.
C6_FillerIsNops ==
    /\ JustInstalled
          => LET d == table[i - 1] IN
             /\ AllNops(ResolvedOf(d) + Footprint(d.hook_type),
                        d.patch_size - Footprint(d.hook_type))
             /\ d.hook_type = "Nop"
                   => /\ AllNops(ResolvedOf(d), d.patch_size)
                      /\ HookCallsOf(i - 1) = {}
    /\ obj.hook_done
          => /\ AllNops(obj.real_address + Footprint(patchSig.hook_type),
                        patchSig.patch_size - Footprint(patchSig.hook_type))
             /\ patchSig.hook_type = "Nop"
                   => /\ AllNops(obj.real_address, patchSig.patch_size)
                      /\ HookCallsOf(0) = {}
                      /\ DOMAIN mem = obj.real_address .. (obj.real_address + patchSig.patch_size - 1)

\* C6 witness: a long jump in a 7-byte window leaves one filler byte.
C6_Witness ==
    /\ JustInstalled
    /\ table[i - 1].hook_type = "Jump6"
    /\ table[i - 1].patch_size = 7
    /\ Byte(mem, ResolvedOf(table[i - 1]) + 6) = NopCell
    /\ Byte(mem, ResolvedOf(table[i - 1]) + 5).enc = "Write6Branch"

\* The thread is inside the loop body for a None-type descriptor.
AtNone ==
    /\ pc \in {"lookup", "report", "check", "trampoline", "hook", "fill"}
    /\ Sig.hook_type = "None"

\* C7 as stated, for the RelocPatch.h variant: Apply() on a None-type patch
\* whose address resolves succeeds.
C7_Original ==
    (patchSig # NoPatch /\ patchSig.hook_type = "None" /\ scan # 0 /\ ret.op = "Apply")
        => pc # "aborted"

\* C7 amended: in the table-driven installer a None-type descriptor that
\* installs has its result slot equal to the database address of its ID
\* plus its offset, the offset being zero, and no step of its installation
\* changes executable memory or a return slot.  (In the RelocPatch.h variant
\* Apply() on a None-type patch halts in HookType::Size and writes nothing.)
C7_NoneWritesResultOnly ==
    /\ [](/\ (JustInstalled /\ table[i - 1].hook_type = "None")
                => /\ table[i - 1].result # NULL
                   /\ table[i - 1].offset = 0
                   /\ result[table[i - 1].result] = FindAddressById(db, table[i - 1].id)
                   /\ result[table[i - 1].result] # 0
          /\ (patchSig # NoPatch /\ patchSig.hook_type = "None")
                => (mem = << >> /\ ~obj.hook_done))
    /\ [][AtNone => (mem' = mem /\ tramp' = tramp)]_vars

\* C7 witness: an object descriptor was installed on top of an earlier
\* patch, whose bytes are in memory.
C7_Witness ==
    /\ JustInstalled
    /\ i > 2
    /\ table[i - 1].hook_type = "None"
    /\ result[table[i - 1].result] = DbAddr(table[i - 1].id)
    /\ mem # << >>

\* The hook target is present exactly when the type is injectable.
TargetRule(target, type) == (target # 0) <=> (type \notin {"None", "Nop"})

\* The trace entries of the current run for table index k.
EventsOf(k) == {e \in 1..Len(trace) : trace[e].i = k /\ trace[e].run = runs}

\* C8 as stated, for RelocPatch::Apply: an Apply(target) that breaks the
\* rule faults and leaves memory untouched.
C8_Original ==
    (/\ patchSig # NoPatch
     /\ ret.op = "Apply"
     /\ ~TargetRule(ret.arg, patchSig.hook_type))
        => (pc = "aborted" /\ mem = << >>)

\* The descriptor's type is an enumerator and breaks the target rule: an
\* injectable type without a hook, or None/Nop with one.
BreaksTargetRule(d) ==
    d.hook_type \in HookTypeSet /\ ~TargetRule(d.hook, d.hook_type)

\* C8 amended: the table-driven installer enforces the rule: a descriptor
\* whose type is an enumerator gets past the checks only if its hook is
\* present exactly when its type is neither None nor Nop, and one that
\* breaks the rule gets no further than the checks, where the process ends
\* with nothing stored or written for it.  (RelocPatch::Apply does not
\* check its target.)
C8_TargetChecked ==
    /\ (pc \in {"trampoline", "hook", "fill"}) => ~BreaksTargetRule(Sig)
    /\ (JustInstalled => TargetRule(table[i - 1].hook, table[i - 1].hook_type))
    /\ \A k \in 1..Len(table) :
          (BreaksTargetRule(table[k]) /\ EventsOf(k) # {})
              => /\ i = k
                 /\ pc \in {"report", "check", "aborted"}
                 /\ pc = "aborted" => fault.at = k
                 /\ \A e \in EventsOf(k) : trace[e].fn = "FindAddressById"

\* C8 witness: an injectable descriptor without a hook target, otherwise
\* well-formed, was stopped by the target assertion after an earlier
\* descriptor had been installed.
C8_Witness ==
    /\ pc = "aborted"
    /\ fault.at = 2
    /\ table[2].hook_type = "Jump6"
    /\ table[2].hook = 0
    /\ table[2].patch_size = 7
    /\ fault.why = "!(sig->hook) == (None || Nop)"
    /\ mem # << >>

\* The descriptor reserves fewer bytes than its hook occupies.  A type
\* without a footprint (None in RelocPatch.h, a tag outside the set) is not
\* such a descriptor.
Undersized(type, patch_size) ==
    /\ type \in ClosedTags
    /\ Footprint(type) > patch_size

\* C9: a descriptor whose footprint exceeds its patch size faults before its
\* return slot, hook bytes or filler are written, in both installers; so
\* SafeMemSet is only ever called with patch_size - footprint >= 0.
C9_UndersizedFaults ==
    /\ (pc \in {"trampoline", "hook", "fill"})
          => ~Undersized(Sig.hook_type, Sig.patch_size)
    /\ \A k \in 1..Len(table) :
          (Undersized(table[k].hook_type, table[k].patch_size) /\ EventsOf(k) # {})
              => /\ i = k
                 /\ pc \in {"report", "check", "aborted"}
                 /\ pc = "aborted" => fault.at = k
                 /\ \A e \in EventsOf(k) : trace[e].fn = "FindAddressById"
    /\ \A e \in 1..Len(trace) :
          (trace[e].fn = "SafeMemSet" /\ trace[e].i >= 1)
              => ~Undersized(table[trace[e].i].hook_type, table[trace[e].i].patch_size)
    /\ (patchSig # NoPatch /\ Undersized(patchSig.hook_type, patchSig.patch_size))
          => /\ mem = << >>
             /\ ~obj.hook_done
             /\ \A e \in 1..Len(trace) : trace[e].fn = "RVAScan"
             /\ ret.op = "Apply" => (pc = "aborted" /\ fault.why # "SafeMemSet: access violation")
    /\ fault.why # "SafeMemSet: access violation"

\* C9 witness: a 6-byte call in a 5-byte window, carrying a return slot,
\* was refused by the size assertion of the table-driven installer with
\* its slot still zero.
C9_Witness ==
    /\ pc = "aborted"
    /\ fault.why = "hook_size <= sig->patch_size"
    /\ fault.at >= 1
    /\ table[fault.at].hook_type = "Call6"
    /\ table[fault.at].patch_size = 5
    /\ table[fault.at].return_trampoline # NULL
    /\ tramp[table[fault.at].return_trampoline] = 0

\* The process was aborted because table descriptor fault.at failed.
TableAbort == pc = "aborted" /\ fault.at >= 1

\* The diagnostic sink holds a message naming the descriptor.
Named(name) == \E k \in 1..Len(log) : log[k].name = name

\* C10 as stated: whenever the process is aborted because a descriptor
\* failed, a message naming that descriptor is in the diagnostic sink.
C10_Original == TableAbort => Named(table[fault.at].name)

\* C10 amended: when ApplyGamePatches aborts after the lookup (footprint
\* over patch size, target mismatch, a slot assertion, a failing write
\* primitive), the message just before the assertion's own is the progress
\* message naming the failing descriptor; when it aborts for an unknown ID,
\* the message before the assertion's names another descriptor or none.
\* When an operation of RelocPatch aborts (resolution or installation), the
\* assertion's own message is all there is: none names the descriptor.
C10_NamedAfterLookup ==
    /\ TableAbort =>
        /\ Len(log) >= 2
        /\ log[Len(log)] = [text |-> fault.why, name |-> ""]
        /\ fault.why # "addr"
              => log[Len(log) - 1] =
                    [text |-> "Signature is at offset", name |-> table[fault.at].name]
        /\ fault.why = "addr"
              => log[Len(log) - 1].name # table[fault.at].name
    /\ (pc = "aborted" /\ patchSig # NoPatch)
          => /\ log = << [text |-> fault.why, name |-> ""] >>
             /\ ~Named(patchSig.name)

\* C10 witness: a write primitive failed for a descriptor of the table
\* after earlier descriptors were installed, and the sink names it.
C10_Witness ==
    /\ TableAbort
    /\ fault.at > 1
    /\ fault.why \in Primitives
    /\ log[Len(log) - 1].name = table[fault.at].name


\* C11: under the versioned-ID strategy the resolved address is the database
\* address of the descriptor's ID plus its offset, and that is where its
\* hook goes; a descriptor whose ID the database does not know aborts the
\* process in the lookup, with nothing stored or written for it.
C11_DatabasePlusOffset ==
    /\ (pc \in {"report", "check", "trampoline", "hook", "fill"})
          => /\ Sig.id \in DOMAIN db
             /\ db[Sig.id] # 0
             /\ real_address = db[Sig.id] + Sig.offset
    /\ (pc = "fill" /\ Sig.hook_type \in Injectable)
          => /\ Byte(mem, db[Sig.id] + Sig.offset).enc = Primitive(Sig.hook_type)
             /\ Byte(mem, db[Sig.id] + Sig.offset).val = 0
    /\ \A k \in 1..Len(table) :
          (table[k].id \notin DOMAIN db /\ EventsOf(k) # {})
              => /\ pc = "aborted"
                 /\ fault = [why |-> "addr", at |-> k]
                 /\ \A e \in EventsOf(k) : trace[e].fn = "FindAddressById"

\* C11 witness: a hook sits at database address plus a non-zero offset, and
\* the next descriptor's unknown ID aborted the run in the lookup.
C11_Witness ==
    /\ pc = "aborted"
    /\ fault = [why |-> "addr", at |-> 2]
    /\ table[2].id \notin DOMAIN db
    /\ table[1].hook_type = "Jump6"
    /\ table[1].offset = 98
    /\ Byte(mem, DbAddr(table[1].id) + 98) =
           Cell("Write6Branch", 0, table[1].hook)


\* The addresses whose byte differs between the two states of a step.
Modified ==
    {a \in DOMAIN mem \cup DOMAIN mem' : Byte(mem', a) # Byte(mem, a)}

\* Bytes [addr, addr + Footprint(type)) are the encoding of type's
\* primitive, in order, targeting target, in memory m.
HoldsHook(m, addr, type, target) ==
    \A j \in 0 .. (Footprint(type) - 1) :
        Byte(m, addr + j) = Cell(Primitive(type), j, target)

\* C12: once an injectable descriptor is installed, its first footprint
\* bytes are the encoding of its hook type targeting its hook and the
\* remaining patch_size - footprint bytes are 0x90; and a step of either
\* installer modifies executable bytes only inside the window
\* [resolved, resolved + patch_size) of the descriptor it is installing.
C12_WindowOnly ==
    /\ []((JustInstalled /\ table[i - 1].hook_type \in Injectable)
            => LET d == table[i - 1] IN
               /\ HoldsHook(mem, ResolvedOf(d), d.hook_type, d.hook)
               /\ AllNops(ResolvedOf(d) + Footprint(d.hook_type),
                          d.patch_size - Footprint(d.hook_type)))
    /\ [][/\ (table # << >> /\ Modified # {})
               => /\ pc \in {"hook", "fill"}
                  /\ Modified \subseteq
                        real_address .. (real_address + Sig.patch_size - 1)
          /\ (table = << >> /\ Modified # {})
               => /\ ret'.op = "Apply"
                  /\ Modified \subseteq
                        obj'.real_address ..
                            (obj'.real_address + patchSig.patch_size - 1)
          /\ (table = << >> /\ obj'.hook_done /\ ~obj.hook_done
                /\ patchSig.hook_type # "Nop")
               => HoldsHook(mem', obj'.real_address, patchSig.hook_type, ret'.arg)
         ]_vars

\* C12 witness: the second descriptor of a table is a long jump installed in
\* a 7-byte window at offset 0x62, next to the first descriptor's bytes.
C12_Witness ==
    /\ JustInstalled
    /\ i = 3
    /\ table[2].hook_type = "Jump6"
    /\ table[2].patch_size = 7
    /\ table[2].offset = 98
    /\ HoldsHook(mem, DbAddr(table[2].id) + 98, "Jump6", table[2].hook)
    /\ Byte(mem, DbAddr(table[2].id) + 98 + 6) = NopCell
    /\ DOMAIN mem # (DbAddr(table[2].id) + 98) .. (DbAddr(table[2].id) + 98 + 6)


\* The events of the current run for table index k, or of the RelocPatch
\* object for k = 0, that call fn.
CallsOf(k, fn) == {e \in EventsOf(k) : trace[e].fn = fn}

\* C13: a write primitive that reports failure ends the process in the
\* same step: the primitive was called once and is the last event, no
\* SafeMemSet follows it, the RelocPatch object is not marked hook_done,
\* no later table entry has been touched, and no step leaves the aborted
\* state.  The filler step is only reached with the hook bytes in place.
C13_FailureAborts ==
    /\ [](/\ (fault.why \in Primitives)
                => /\ pc = "aborted"
                   /\ trace[Len(trace)].fn = fault.why
                   /\ trace[Len(trace)].i = fault.at
                   /\ Cardinality(CallsOf(fault.at, fault.why)) = 1
                   /\ CallsOf(fault.at, "SafeMemSet") = {}
                   /\ ~obj.hook_done
                   /\ \A k \in (fault.at + 1) .. Len(table) : EventsOf(k) = {}
          /\ (pc = "fill" /\ Sig.hook_type \in Injectable)
                => HoldsHook(mem, real_address, Sig.hook_type, Sig.hook))
    /\ [][/\ pc # "aborted"
          /\ (pc' = "aborted" /\ fault'.why \in Primitives) => mem' = mem
         ]_vars

\* C13 witness: the primitive of the first of two descriptors failed.
C13_Witness ==
    /\ pc = "aborted"
    /\ fault = [why |-> "Write6Branch", at |-> 1]
    /\ Len(table) = 2
    /\ trace[Len(trace)].fn = "Write6Branch"
    /\ mem = << >>


\* The positions in the trace of run r's calls of fn.
RunCalls(r, fn) ==
    {e \in 1..Len(trace) : trace[e].fn = fn /\ trace[e].run = r}

\* C14: every run of ApplyGamePatches() that has started has exactly one
\* Load() in the trace, every FindAddressById of that run comes after it,
\* and there is no FindAddressById outside a run.
C14_LoadOnceFirst ==
    /\ \A r \in 1..runs :
          /\ Cardinality(RunCalls(r, "Load")) = 1
          /\ \A l \in RunCalls(r, "Load"), f \in RunCalls(r, "FindAddressById") :
                l < f
    /\ \A e \in 1..Len(trace) :
          trace[e].fn = "FindAddressById" => trace[e].run \in 1..runs
    /\ (pc \notin {"idle", "done", "aborted"}) => RunCalls(runs, "Load") # {}

\* C14 witness: two complete runs, each with its own Load() ahead of its
\* lookups.
C14_Witness ==
    /\ runs = 2
    /\ pc = "done"
    /\ Cardinality(RunCalls(1, "FindAddressById")) = Len(table)
    /\ Cardinality(RunCalls(2, "FindAddressById")) = Len(table)
    /\ \E l1 \in RunCalls(1, "Load"), l2 \in RunCalls(2, "Load") :
          /\ l1 = 1
          /\ l2 > l1
          /\ \A f \in RunCalls(1, "FindAddressById") : l1 < f /\ f < l2


\* The progress message of ApplyGamePatches' loop body.
IsSignatureMessage(m) == m.text = "Signature is at offset"

\* A database lookup in the trace.
IsLookup(e) == e.fn = "FindAddressById"

\* A filler write of the table-driven installer in the trace.
IsTableFill(e) == e.fn = "SafeMemSet" /\ e.i >= 1

\* The progress messages, the lookups and the completed installations of
\* the table-driven installer, each in the order they happened.
SignatureLog == SelectSeq(log, IsSignatureMessage)
LookupSeq == SelectSeq(trace, IsLookup)
InstalledSeq == SelectSeq(trace, IsTableFill)

\* The lookups of each run go through the table from index 1 upwards, one
\* index at a time, and a descriptor is looked up only when the filler of
\* the one before it has been written.
InTableOrder ==
    /\ \A j \in 1..Len(LookupSeq) :
          LookupSeq[j].i =
              IF j > 1 /\ LookupSeq[j - 1].run = LookupSeq[j].run
              THEN LookupSeq[j - 1].i + 1
              ELSE 1
    /\ \A e \in 1..Len(trace) :
          (trace[e].fn = "FindAddressById" /\ trace[e].i > 1)
              => trace[e - 1] =
                    [fn |-> "SafeMemSet", run |-> trace[e].run, i |-> trace[e].i - 1]
    /\ \A j \in 1..Len(InstalledSeq) :
          /\ j <= Len(LookupSeq)
          /\ InstalledSeq[j].i = LookupSeq[j].i
          /\ InstalledSeq[j].run = LookupSeq[j].run

\* C15 as stated: descriptors are handled in table order, once per run, and
\* there are never more progress messages than completed installations.
C15_Original ==
    /\ InTableOrder
    /\ Len(SignatureLog) <= Len(InstalledSeq)

\* The lookup of the current descriptor has not been reported: it is about
\* to be, or it failed.
LookupPending ==
    IF \/ pc = "report"
       \/ /\ TableAbort
          /\ fault.why = "addr"
          /\ FindAddressById(db, table[fault.at].id) = 0
    THEN 1 ELSE 0

\* C15 amended: descriptors are handled in table order, once per run, in
\* the steps resolve, emit the progress message, install.  The j-th
\* message names the descriptor of the j-th lookup, every successful
\* lookup has its message, the message is emitted before anything is
\* stored or written for the descriptor, and so a message exists for a
\* descriptor whose installation then fails.
C15_ReportBeforeInstall ==
    /\ [](/\ InTableOrder
          /\ Len(SignatureLog) = Len(LookupSeq) - LookupPending
          /\ \A j \in 1..Len(SignatureLog) :
                SignatureLog[j].name = table[LookupSeq[j].i].name
          /\ Len(InstalledSeq) <= Len(SignatureLog))
    /\ [][(Len(log') > Len(log) /\ IsSignatureMessage(log'[Len(log')]))
            => /\ pc = "report"
               /\ trace[Len(trace)] = Call("FindAddressById", i)
               /\ \A e \in EventsOf(i) : trace[e].fn \notin WriteEvents
         ]_vars

\* C15 witness: the second descriptor's write primitive failed; both
\* descriptors have their progress message and only the first is installed.
C15_Witness ==
    /\ TableAbort
    /\ fault.at = 2
    /\ fault.why \in Primitives
    /\ Len(SignatureLog) = 2
    /\ SignatureLog[2].name = table[2].name
    /\ Len(InstalledSeq) = 1


\* The descriptors of the table that name a return slot with a type that
\* injects nothing.
SlotWithoutHook ==
    {k \in 1..Len(table) :
        table[k].return_trampoline # NULL /\ table[k].hook_type \in {"None", "Nop"}}

\* The faults that stop a descriptor with a return slot and type None or
\* Nop: the target rule when it carries a hook, else the slot's own
\* assertions.
SlotFaults ==
    {"!(sig->hook) == (None || Nop)",
     "sig->hook_type != HookType::None",
     "sig->hook_type != HookType::Nop"}

\* C16: a return slot is stored only by the step of a descriptor that names
\* it and whose type is an injectable encoding, with real_address plus
\* the footprint of that type; a descriptor with a
\* return slot and type None or Nop never gets past that step: once
\* resolved it faults, and nothing is stored or written for it.
C16_SlotOnlyForInjectable ==
    /\ [](/\ (pc \in {"hook", "fill"} /\ Sig.return_trampoline # NULL)
                => Sig.hook_type \in Injectable
          /\ \A k \in SlotWithoutHook :
                EventsOf(k) # {}
                    => /\ i = k
                       /\ pc \in {"report", "check", "trampoline", "aborted"}
                       /\ \A e \in EventsOf(k) : trace[e].fn = "FindAddressById"
                       /\ (pc = "aborted" /\ fault.why # "addr")
                             => fault.why \in SlotFaults)
    /\ [][/\ (tramp' # tramp)
               => /\ pc = "trampoline"
                  /\ Sig.hook_type \in Injectable
                  /\ Sig.return_trampoline # NULL
                  /\ tramp' = [tramp EXCEPT ![Sig.return_trampoline] =
                                  real_address + Footprint(Sig.hook_type)]
          /\ (pc = "trampoline" /\ i \in SlotWithoutHook)
               => /\ pc' = "aborted"
                  /\ mem' = mem /\ tramp' = tramp /\ result' = result
         ]_vars

\* C16 witness: the second descriptor is of type None or Nop with a return
\* slot; it faulted in the slot's assertion with the first one's bytes and
\* every return slot as they were.
C16_Witness ==
    /\ TableAbort
    /\ fault.at = 2
    /\ 2 \in SlotWithoutHook
    /\ fault.why \in {"sig->hook_type != HookType::None",
                      "sig->hook_type != HookType::Nop"}
    /\ tramp[table[2].return_trampoline] = 0
    /\ mem # << >>


\* The public operations of RelocPatch<T> that hand out or use the address.
AddressOps ==
    {"operator*", "operator->", "operator T", "GetUIntPtr", "GetRetAddr", "Apply"}

\* C17 as stated: whenever one of the address operations of RelocPatch has
\* returned, the object is resolved and the address it handed out is not
\* zero, whatever was called before it.
C17_Original ==
    (patchSig # NoPatch /\ pc # "aborted" /\ ret.op \in AddressOps)
        => /\ obj.real_address # 0
           /\ ret.op # "Apply" => ret.value # 0

\* What holds of RelocPatch: the operations that call Resolve() return only
\* with the object resolved and a non-zero address; operator T() returns
\* real_address as it finds it, zero on an object nothing has resolved yet,
\* and consults RVAScan never.
C17_ResolvingOpsOnly ==
    /\ [](/\ (patchSig # NoPatch /\ pc # "aborted"
                /\ ret.op \in AddressOps \ {"operator T"})
                => /\ obj.real_address # 0
                   /\ ret.op # "Apply" => ret.value # 0
          /\ (ret.op = "operator T") => ret.value = obj.real_address)
    /\ [][(ret'.op = "operator T" /\ ret' # ret)
             => (obj' = obj /\ trace' = trace /\ pc' = pc)]_vars

\* C17 failing state: operator T() was the first operation on a fresh
\* object whose pattern RVAScan would have found; it returned the null
\* address, consulted nothing and the process goes on.
C17_Witness ==
    /\ patchSig # NoPatch
    /\ scan # 0
    /\ ret.op = "operator T"
    /\ ret.value = 0
    /\ obj.real_address = 0
    /\ trace = << >>
    /\ pc # "aborted"


\* Every CodeSignature that RelocPatch.cpp declares in compiled code.
DeclaredSignatures ==
    {kThePlayer_ObjectSig, kGameSettingCollection_ObjectSig,
     kGetLevel_FunctionSig, kGetBaseActorValue_FunctionSig,
     kGetSkillCoefficients_FunctionSig, kModifyPerkPool_PatchSig,
     kSkillCapPatch_PatchSig, kHideLegendaryButton_PatchSig,
     kImproveSkillLevel_PatchSig, kImprovePlayerSkillPoints_PatchSig,
     kImproveLevelExpBySkillLevel_PatchSig,
     kImproveAttributeWhenLevelUp_PatchSig,
     kAllowAllAttrImproveCarryWeight_PatchSig,
     kGetEffectiveSkillLevel_PatchSig, kDisplayTrueSkillLevel_PatchSig}

\* The table indices at which descriptor d was installed in run r: the
\* filler write that ends its installation is in the trace.
InstalledAt(d, r) ==
    {k \in 1..Len(table) :
        table[k] = d /\ \E e \in RunCalls(r, "SafeMemSet") : trace[e].i = k}

\* The game's table has been applied to the end in the current run.
GameDone == table = kGameSignatures /\ pc = "done"

\* C18 as stated: when ApplyGamePatches() has completed on the game's
\* table, every declared descriptor has been installed exactly once in
\* that run.
C18_Original ==
    GameDone =>
        \A d \in DeclaredSignatures : Cardinality(InstalledAt(d, runs)) = 1

\* What holds: the fourteen descriptors listed in kGameSignatures are
\* installed exactly once per completed run; the declared descriptor
\* AllowAllAttrImproveCarryWeight is not in the table, is never installed,
\* and the two bytes of its window keep the game's code.
C18_ListedOnly ==
    GameDone =>
        /\ \A k \in 1..Len(table) : Cardinality(InstalledAt(table[k], runs)) = 1
        /\ DeclaredSignatures \ {table[k] : k \in 1..Len(table)} =
               {kAllowAllAttrImproveCarryWeight_PatchSig}
        /\ InstalledAt(kAllowAllAttrImproveCarryWeight_PatchSig, runs) = {}
        /\ \A a \in ResolvedOf(kAllowAllAttrImproveCarryWeight_PatchSig) ..
                   (ResolvedOf(kAllowAllAttrImproveCarryWeight_PatchSig) + 1) :
               Byte(mem, a).enc = "orig"

\* C18 failing state: ApplyGamePatches() has completed on the game's table
\* with the whole database known, and the branch the carry-weight patch
\* would have replaced by no-ops is still the game's.
C18_Witness ==
    /\ GameDone
    /\ db = FullDb
    /\ kImproveAttributeWhenLevelUp_PatchSig \in {table[k] : k \in 1..Len(table)}
    /\ Byte(mem, DbAddr(51917)).enc = "Write6Branch"
    /\ Byte(mem, DbAddr(51917) + 154) = Cell("orig", 0, 0)
    /\ Byte(mem, DbAddr(51917) + 155) = Cell("orig", 0, 0)


\* The bytes descriptor d reserves: [resolved, resolved + patch_size).
Window(d) == ResolvedOf(d) .. (ResolvedOf(d) + d.patch_size - 1)

\* Two different entries of the table name the same database ID.
SharesId(k, l) == k # l /\ table[k].id = table[l].id

\* The entries of the table that share their ID with another entry.
SharedEntries ==
    {k \in 1..Len(table) : \E l \in 1..Len(table) : SharesId(k, l)}

\* Table entry k has been installed in some run.
Installed(k) == \E r \in 1..runs : InstalledAt(table[k], r) # {}

\* C19: in kGameSignatures the windows [offset, offset + patch_size) of
\* entries with the same database ID are pairwise disjoint; a step
\* installing one entry modifies no byte in the window of another entry
\* with its ID, and every installed entry that shares its ID keeps its hook
\* encoding and its filler through the rest of the run and later runs.
C19_SharedIdWindowsDisjoint ==
    /\ [](table = kGameSignatures =>
            /\ \A k, l \in 1..Len(table) :
                  SharesId(k, l) =>
                      \/ table[k].offset + table[k].patch_size <= table[l].offset
                      \/ table[l].offset + table[l].patch_size <= table[k].offset
            /\ \A k \in SharedEntries :
                  Installed(k) =>
                      /\ HoldsHook(mem, ResolvedOf(table[k]),
                                   table[k].hook_type, table[k].hook)
                      /\ AllNops(ResolvedOf(table[k]) + Footprint(table[k].hook_type),
                                 table[k].patch_size - Footprint(table[k].hook_type)))
    /\ [][(table = kGameSignatures /\ Modified # {})
             => \A l \in 1..Len(table) :
                   SharesId(i, l) => Modified \cap Window(table[l]) = {}
         ]_vars

\* C19 witness: the three entries with ID 41561 (offsets 0x76, 0 and 0x2D7)
\* are all installed and each one's first and last byte is its own.
C19_Witness ==
    /\ GameDone
    /\ Cardinality({k \in 1..Len(table) : table[k].id = 41561}) = 3
    /\ Byte(mem, DbAddr(41561)) =
           Cell("Write6Branch", 0, kImprovePlayerSkillPoints_PatchSig.hook)
    /\ Byte(mem, DbAddr(41561) + 118) =
           Cell("Write6Call", 0, kSkillCapPatch_PatchSig.hook)
    /\ Byte(mem, DbAddr(41561) + 126) = NopCell
    /\ Byte(mem, DbAddr(41561) + 727) =
           Cell("Write6Call", 0, kImproveLevelExpBySkillLevel_PatchSig.hook)
    /\ Byte(mem, DbAddr(41561) + 734) = NopCell


\* The table entry that stores into a result slot.
StoredBy(slot) == {k \in 1..Len(table) : table[k].result = slot}

\* ApplyGamePatches() has returned at least once.
HasReturned ==
    \E k \in 1..Len(log) : log[k].text = "Finished applying game patches!"

\* C20: once ApplyGamePatches() has returned on the game's table, each of
\* the five result slots playerObject, gameSettings, GetLevel_Entry,
\* GetBaseActorValue_Entry and GetSkillCoefficients_Entry holds the non-null
\* database address of the one entry that names it, and a later run leaves
\* them so; a getter whose slot assertion ended the process was called
\* before ApplyGamePatches() had ever returned.
C20_ResultSlotsSet ==
    /\ (table = kGameSignatures /\ (pc = "done" \/ runs >= 2))
        => /\ HasReturned
           /\ ResultSlots =
                 {"playerObject", "gameSettings", "GetLevel_Entry",
                  "GetBaseActorValue_Entry", "GetSkillCoefficients_Entry"}
           /\ \A slot \in ResultSlots :
                 /\ SlotPresent(slot)
                 /\ Cardinality(StoredBy(slot)) = 1
                 /\ \A k \in StoredBy(slot) :
                       /\ table[k].hook_type = "None"
                       /\ result[slot] = DbAddr(table[k].id)
    /\ (table = kGameSignatures /\ pc = "aborted" /\ fault.why \in ResultSlots)
        => /\ ~HasReturned
           /\ ~SlotPresent(fault.why)

\* C20 witness: ApplyGamePatches() has returned on the game's table, the
\* five slots hold five different non-null addresses, and GetLevel() has
\* passed its assertion and called the address in its slot.
C20_Witness ==
    /\ GameDone
    /\ runs = 1
    /\ Cardinality({result[slot] : slot \in ResultSlots}) = 5
    /\ \A slot \in ResultSlots : SlotPresent(slot)
    /\ result["playerObject"] = DbAddr(403521)
    /\ ret = Returned("GetLevel", 0, DbAddr(37334))

====
